---- MODULE Spec2Model ----
(***************************************************************************)
(* torscraper: the Scraper client (torscraper/scraper.py) and its file     *)
(* cachers (torscraper/caching).  A client is used sequentially (two       *)
(* threads on one client are modelled apart, under "threads"): scrape      *)
(* checks the cache, rotates the Tor identity when the current IP has been *)
(* used max_n_uses times, sleeps to keep requests apart, fetches the page, *)
(* and caches a 2xx response or records the URL as a bad response.         *)
(*                                                                         *)
(* Time is an integer clock counting 1/RandDenom seconds, so that          *)
(* random.random() is one of 0/RandDenom .. (RandDenom-1)/RandDenom.       *)
(***************************************************************************)
EXTENDS Integers, Sequences, FiniteSets, TLC

\* ------------------------------------------------------------------ bounds
MaxCalls == 3           \* scrape calls made on the client
MaxTime == 3            \* the caller idles only while the clock is below this
MaxFetchDur == 1        \* ticks a page request may take to return or fail
MaxMaxNUses == 2        \* max_n_uses is drawn from 0 .. MaxMaxNUses
MaxMinWait == 1         \* minimum_wait_time (seconds) is drawn from 1 .. MaxMinWait
MaxRandomWait == 1      \* random_wait_time (seconds) is drawn from 0 .. MaxRandomWait
RandDenom == 2          \* random.random() is k / RandDenom, k in 0 .. RandDenom-1
MaxUrlLen == 2          \* longest URL string of the cache-key claims
MaxKeyCalls == 2        \* scrape calls made in the cache-key claims
MaxThreadCalls == 2     \* scrape calls each thread makes
MaxThreadTime == 4      \* threads wait only while the clock is below this

\* ------------------------------------------------------------ environment
\* exit addresses Tor may hand out, as icanhazip reports them
IPs == {"10.0.0.1", "10.0.0.2"}

\* URLs are strings, modelled as sequences of characters.
UrlAB == <<"a", "/", "b">>
UrlA__B == <<"a", "_", "_", "b">>
UrlC == <<"c">>
URLs == {UrlAB, UrlA__B, UrlC}

\* status codes a site may answer with
StatusCodes == {200, 299, 300, 404}

Cachers == {"PickleCacher", "TextCacher"}

Max(a, b) == IF a >= b THEN a ELSE b

\* --------------------------------------------------------------- cachers
cache_root == "~/torscraper-cache/"

EXTENSION(c) == IF c = "PickleCacher" THEN ".pkl" ELSE ".txt"

\* os.path.join(cache_root, name) + EXTENSION
_get_file_path(c, name) == <<cache_root>> \o name \o <<EXTENSION(c)>>

\* bug: the existence check forgets the extension that cache_response uses
check_response_exists_NoExtension(fs, c, name) ==
    (<<cache_root>> \o name) \in DOMAIN fs

\* os.path.exists(file_path)
check_response_exists(fs, c, name) == _get_file_path(c, name) \in DOMAIN fs

\* what the cacher writes to the file: the pickled response, or response.text
FileContent(c, response) ==
    IF c = "PickleCacher" THEN [pickled |-> response] ELSE response.text

\* bug: the file is written without the extension the existence check uses
cache_response_NoExtension(fs, c, response, name) ==
    LET path == <<cache_root>> \o name
    IN  [p \in DOMAIN fs \cup {path} |->
            IF p = path THEN FileContent(c, response) ELSE fs[p]]

\* open(file_path, "w") and write: creates the file or overwrites it
cache_response(fs, c, response, name) ==
    LET path == _get_file_path(c, name)
    IN  [p \in DOMAIN fs \cup {path} |->
            IF p = path THEN FileContent(c, response) ELSE fs[p]]

RECURSIVE read_text(_)
\* open(file_path, "r") and f.read(): text mode with universal newlines, every
\* "\r\n" and every other "\r" of the file is read as "\n"
read_text(content) ==
    IF content = <<>> THEN <<>>
    ELSE IF Head(content) = "\r"
         THEN <<"\n">> \o read_text(IF Len(content) >= 2 /\ content[2] = "\n"
                                     THEN Tail(Tail(content))
                                     ELSE Tail(content))
         ELSE <<Head(content)>> \o read_text(Tail(content))

\* pickle.load of the file, or the text read from it
get_response_from_cache(fs, c, name) ==
    LET content == fs[_get_file_path(c, name)]
    IN  IF c = "PickleCacher" THEN content.pickled ELSE read_text(content)

\* ---------------------------------------------------------------- scraper
RECURSIVE get_file_name_SingleUnderscore(_)
\* bug: "/" is replaced by "_" (as src/torscraper/src/scraper.py did)
get_file_name_SingleUnderscore(url) ==
    IF url = <<>> THEN <<>>
    ELSE (IF Head(url) = "/" THEN <<"_">> ELSE <<Head(url)>>)
         \o get_file_name_SingleUnderscore(Tail(url))

RECURSIVE get_file_name(_)
\* url.replace("/", "__")
get_file_name(url) ==
    IF url = <<>> THEN <<>>
    ELSE (IF Head(url) = "/" THEN <<"_", "_">> ELSE <<Head(url)>>)
         \o get_file_name(Tail(url))

\* the n_uses property: the value it returns ...
n_uses(ledger, ip) == IF ip \in DOMAIN ledger THEN ledger[ip] ELSE 0

\* ... and the ledger it leaves (the KeyError branch creates the entry)
n_uses_ledger(ledger, ip) ==
    IF ip \in DOMAIN ledger THEN ledger
    ELSE [i \in DOMAIN ledger \cup {ip} |-> IF i = ip THEN 0 ELSE ledger[i]]

\* bug: the address becomes current without getting a ledger entry
_update_current_ip_NoEntry(ledger, ip) == ledger

\* bug: an address that has an entry already keeps its count
_update_current_ip_KeepsCount(ledger, ip) ==
    [i \in DOMAIN ledger \cup {ip} |->
        IF i \in DOMAIN ledger THEN ledger[i] ELSE 0]

\* self.ips_used[self.current_ip] = 0 for the address icanhazip reports
_update_current_ip(ledger, ip) ==
    [i \in DOMAIN ledger \cup {ip} |-> IF i = ip THEN 0 ELSE ledger[i]]

\* bug: the count is assigned instead of added to
_update_ip_dict_Assigns(ledger, ip, n) == [ledger EXCEPT ![ip] = n]

\* self.ips_used[self.current_ip] += n
_update_ip_dict(ledger, ip, n) == [ledger EXCEPT ![ip] = @ + n]

\* bug: the comparison is strict, one use too late
RotationDue_Strict(n, max) == n > max

\* if self.n_uses >= self.max_n_uses
RotationDue(n, max) == n >= max

\* bug: the time already passed is not taken off (as in src/session.py)
WaitTime_IgnoresElapsed(min_wait, rand_wait, r, elapsed) ==
    min_wait * RandDenom + r * rand_wait

\* max(minimum_wait_time + random.random() * random_wait_time - elapsed, 0),
\* in ticks, with random.random() = r / RandDenom
WaitTime(min_wait, rand_wait, r, elapsed) ==
    Max(min_wait * RandDenom + r * rand_wait - elapsed, 0)

\* bug: redirects count as success
success_Below400(status) == status \div 100 <= 3

\* bug: every response counts as success, so failures are cached too
success_Always(status) == TRUE

\* response.status_code // 100 == 2
success(status) == status \div 100 = 2

\* a file for the URL's key is in the cache directory
KeyCached(fs, c, url) == (<<cache_root>> \o get_file_name(url) \o <<EXTENSION(c)>>) \in DOMAIN fs

\* bug: the cache is checked whether or not ignore_cache is set
FetchFromInternet_IgnoresFlag(ignore, fs, c, url) ==
    ~check_response_exists(fs, c, get_file_name(url))

\* the cache check of scrape: fetch_from_internet
FetchFromInternet(ignore, fs, c, url) ==
    IF ignore THEN TRUE ELSE ~check_response_exists(fs, c, get_file_name(url))

\* the pool random.choice draws the User-Agent from
USER_AGENTS == {"agent-1", "agent-2"}

\* the headers argument of Scraper(): None (here the empty dict) or a dict
HeaderArgs == {<<>>, "User-Agent" :> "my-agent", "Accept" :> "text/html"}

\* the options a call passes on to tor_session.get: none, or its own headers
CallOptions == {<<>>, "headers" :> ("User-Agent" :> "call-agent")}

\* session.headers = self.headers or {}
_get_tor_session(h) == h

\* bug: the User-Agent is replaced whether or not randomize_headers is set
_refresh_ip_headers_Always(randomize, h, ua) ==
    [n \in DOMAIN h \cup {"User-Agent"} |->
        IF n = "User-Agent" THEN ua ELSE h[n]]

\* if self.randomize_headers: self.tor_session.headers["User-Agent"] = ua
_refresh_ip_headers(randomize, h, ua) ==
    IF randomize
    THEN [n \in DOMAIN h \cup {"User-Agent"} |->
             IF n = "User-Agent" THEN ua ELSE h[n]]
    ELSE h

\* tor_session.get(url, **kwargs): the headers of the call are merged over
\* the headers of the session; "none" when neither names a User-Agent
UserAgentSent(h, kw) ==
    LET own == IF "headers" \in DOMAIN kw THEN kw["headers"] ELSE <<>>
    IN  IF "User-Agent" \in DOMAIN own THEN own["User-Agent"]
        ELSE IF "User-Agent" \in DOMAIN h THEN h["User-Agent"]
        ELSE "none"

VARIABLES
    \* configuration, fixed by __init__
    max_n_uses, minimum_wait_time, random_wait_time, ignore_cache, cacher,
    randomize_headers, headers,
    \* the client
    ips_used, current_ip, last_scrape_time, bad_response_urls,
    \* tor_session.headers
    session_headers,
    \* the cache directory: file path -> content
    files,
    \* the wall clock
    now,
    \* the running scrape call
    \* (status_code: response.status_code, 0 while there is no response)
    \* (kwargs: the options the caller passes on to tor_session.get)
    pc, url, fetch_from_internet, time_since_last_request, wait_time,
    status_code, kwargs,
    \* the exception the running call raised ("none": none), and what its
    \* except clause printed
    error, printed,
    \* the name and the value of the latest get_response_from_cache, if it
    \* came after the latest cache_response
    got,
    \* history: the state when the running call started
    pre,
    \* history: the running call rotated the identity
    rotated,
    \* history: when the latest page request was sent
    last_request_time,
    \* history: page requests sent under each address
    fetched_under,
    \* history: the User-Agent header of the latest page request
    request_user_agent,
    \* history: the User-Agent the latest rotation chose
    chosen_user_agent,
    \* history: the response last given to cache_response, by name
    given,
    \* Scraper objects used from threads, by number, and the threads that
    \* call scrape on them
    scrapers, threads,
    \* history: URLs whose latest scrape call ended with a non-2xx response
    failed_last,
    \* history: URLs whose 2xx response this client fetched and stored
    stored_urls,
    \* history: scrape calls made
    n_calls,
    \* history: every call so far fetched a URL not fetched before, and the
    \* fetch completed
    all_fresh

config == <<max_n_uses, minimum_wait_time, random_wait_time, ignore_cache,
            cacher, randomize_headers, headers>>
client == <<ips_used, current_ip, last_scrape_time, bad_response_urls>>
frame == <<url, fetch_from_internet, time_since_last_request, wait_time,
           status_code, kwargs>>
sent == <<last_request_time, fetched_under, request_user_agent>>
past == <<failed_last, stored_urls, all_fresh>>
agent == <<session_headers, chosen_user_agent>>
report == <<error, printed>>
retrieved == <<got, given>>
pool == <<scrapers, threads>>
vars == <<config, client, files, now, pc, frame, pre, rotated, sent, past,
          n_calls, agent, report, retrieved, pool>>

Snapshot == [ips_used |-> ips_used, current_ip |-> current_ip,
             last_scrape_time |-> last_scrape_time,
             bad_response_urls |-> bad_response_urls, files |-> files,
             fetched_under |-> fetched_under, failed_last |-> failed_last,
             stored_urls |-> stored_urls, all_fresh |-> all_fresh]

\* a response left in the cache directory by an earlier run
OldResponse == [status_code |-> 200, text |-> <<"old">>]

\* the page the site serves for a URL
PageOf(u, status) == [status_code |-> status, text |-> u]

\* __init__: the configuration, the first address and its ledger entry of 0,
\* no bad responses, last_scrape_time = time.time(); the cache directory may
\* hold files of an earlier run
InitScraper ==
    /\ max_n_uses \in 0 .. MaxMaxNUses
    /\ minimum_wait_time \in 1 .. MaxMinWait
    /\ random_wait_time \in 0 .. MaxRandomWait
    /\ ignore_cache \in BOOLEAN
    /\ cacher \in Cachers
    /\ randomize_headers \in BOOLEAN
    /\ headers \in HeaderArgs
    /\ session_headers = _get_tor_session(headers)
    /\ current_ip \in IPs
    /\ ips_used = _update_current_ip(<<>>, current_ip)
    /\ bad_response_urls = {}
    /\ now = 0
    /\ last_scrape_time = now
    /\ \E names \in SUBSET {get_file_name(u) : u \in URLs} :
          files = [p \in {_get_file_path(cacher, n) : n \in names} |->
                      FileContent(cacher, OldResponse)]
    /\ pc = "idle"
    /\ url = <<>>
    /\ fetch_from_internet = FALSE
    /\ time_since_last_request = 0
    /\ wait_time = 0
    /\ status_code = 0
    /\ kwargs = <<>>
    /\ error = "none"
    /\ printed = <<>>
    /\ got = <<>>
    /\ given = <<>>
    /\ rotated = FALSE
    /\ request_user_agent = "none"
    /\ chosen_user_agent = "none"
    /\ last_request_time = 0
    /\ fetched_under = [i \in IPs |-> 0]
    /\ failed_last = {}
    /\ stored_urls = {}
    /\ n_calls = 0
    /\ all_fresh = TRUE
    /\ pre = Snapshot

\* one client, used from the thread that made it
Init == InitScraper /\ scrapers = <<>> /\ threads = <<>>

\* the caller lets time pass between calls
Tick ==
    /\ pc = "idle"
    /\ now < MaxTime
    /\ now' = now + 1
    /\ UNCHANGED <<config, client, files, pc, frame, pre, rotated, sent, past,
                   n_calls, agent, report, retrieved, pool>>

\* scrape(u, **kw), lines 185-197: the file name and the cache check; a cache
\* hit returns at once
ScrapeWith(u, kw) ==
    /\ pc = "idle"
    /\ n_calls < MaxCalls
    /\ n_calls' = n_calls + 1
    /\ url' = u
    /\ kwargs' = kw
    /\ fetch_from_internet' = FetchFromInternet(ignore_cache, files, cacher, u)
    /\ pre' = Snapshot
    /\ IF fetch_from_internet'
       THEN /\ pc' = "rotation_check"
            /\ all_fresh' = (/\ all_fresh
                             /\ u \notin stored_urls \cup bad_response_urls
                             /\ ~KeyCached(files, cacher, u))
            /\ UNCHANGED failed_last
       ELSE /\ pc' = "done"
            /\ all_fresh' = FALSE
            /\ failed_last' = failed_last \ {u}
    /\ UNCHANGED <<config, client, files, now, time_since_last_request,
                   wait_time, status_code, rotated, sent, stored_urls, agent,
                   report, retrieved, pool>>

\* scrape(u): the caller passes no options
Scrape(u) == ScrapeWith(u, <<>>)

\* _get_page_from_internet, line 224: the address has uses left
KeepIp ==
    /\ pc = "rotation_check"
    /\ ~RotationDue(n_uses(ips_used, current_ip), max_n_uses)
    /\ ips_used' = n_uses_ledger(ips_used, current_ip)
    /\ pc' = "throttle"
    /\ UNCHANGED <<config, current_ip, last_scrape_time, bad_response_urls,
                   files, now, frame, pre, rotated, sent, past, n_calls, agent,
                   report, retrieved, pool>>

\* bug: after a rotation the page is requested at once, the wait is taken
\* only when the address is kept (as src/torscraper/src/session.py did)
RefreshIp_SkipsThrottle(ip) ==
    /\ pc = "rotation_check"
    /\ RotationDue(n_uses(ips_used, current_ip), max_n_uses)
    /\ current_ip' = ip
    /\ ips_used' = _update_current_ip(n_uses_ledger(ips_used, current_ip), ip)
    /\ \E ua \in USER_AGENTS :
          /\ session_headers' =
                 _refresh_ip_headers(randomize_headers, session_headers, ua)
          /\ chosen_user_agent' =
                 IF randomize_headers THEN ua ELSE chosen_user_agent
    /\ rotated' = TRUE
    /\ pc' = "fetch"
    /\ UNCHANGED <<config, last_scrape_time, bad_response_urls, files, now,
                   frame, pre, sent, past, n_calls, report, retrieved, pool>>

\* lines 224-229 and _refresh_ip: NEWNYM, then icanhazip reports address ip;
\* with randomize_headers, random.choice(USER_AGENTS) becomes the User-Agent
RefreshIp(ip) ==
    /\ pc = "rotation_check"
    /\ RotationDue(n_uses(ips_used, current_ip), max_n_uses)
    /\ current_ip' = ip
    /\ ips_used' = _update_current_ip(n_uses_ledger(ips_used, current_ip), ip)
    /\ \E ua \in USER_AGENTS :
          /\ session_headers' =
                 _refresh_ip_headers(randomize_headers, session_headers, ua)
          /\ chosen_user_agent' =
                 IF randomize_headers THEN ua ELSE chosen_user_agent
    /\ rotated' = TRUE
    /\ pc' = "throttle"
    /\ UNCHANGED <<config, last_scrape_time, bad_response_urls, files, now,
                   frame, pre, sent, past, n_calls, report, retrieved, pool>>

\* bug: the except clause prints and returns, the error is swallowed
Raise_Swallows(e) ==
    /\ printed' = <<bad_response_urls>>
    /\ error' = "none"
    /\ pc' = "done"

\* lines 211-213: exception e reaches the except clause of scrape, which
\* prints the bad responses and raises e again
Raise(e) ==
    /\ printed' = <<bad_response_urls>>
    /\ error' = e
    /\ pc' = "raised"

\* bug: the ledger entry of the address is reset before authenticate raises
RefreshIpFails_ResetsLedger ==
    /\ pc = "rotation_check"
    /\ RotationDue(n_uses(ips_used, current_ip), max_n_uses)
    /\ ips_used' = _update_current_ip(ips_used, current_ip)
    /\ Raise("AuthenticationFailure")
    /\ failed_last' = failed_last \ {url}
    /\ all_fresh' = FALSE
    /\ UNCHANGED <<config, current_ip, last_scrape_time, bad_response_urls,
                   files, now, frame, pre, rotated, sent, stored_urls, n_calls,
                   agent, retrieved, pool>>

\* _refresh_ip: controller.authenticate raises; scrape prints the bad
\* responses and re-raises
RefreshIpFails ==
    /\ pc = "rotation_check"
    /\ RotationDue(n_uses(ips_used, current_ip), max_n_uses)
    /\ ips_used' = n_uses_ledger(ips_used, current_ip)
    /\ Raise("AuthenticationFailure")
    /\ failed_last' = failed_last \ {url}
    /\ all_fresh' = FALSE
    /\ UNCHANGED <<config, current_ip, last_scrape_time, bad_response_urls,
                   files, now, frame, pre, rotated, sent, stored_urls, n_calls,
                   agent, retrieved, pool>>

\* lines 232-244: the wait is computed from the clock and slept
Throttle(r) ==
    /\ pc = "throttle"
    /\ time_since_last_request' = now - last_scrape_time
    /\ wait_time' = WaitTime(minimum_wait_time, random_wait_time, r,
                             time_since_last_request')
    /\ now' = now + wait_time'
    /\ pc' = "fetch"
    /\ UNCHANGED <<config, client, files, url, fetch_from_internet,
                   status_code, kwargs, pre, rotated, sent, past, n_calls,
                   agent, report, retrieved, pool>>

\* the page request goes out now, under current_ip
SendRequest ==
    /\ last_request_time' = now
    /\ fetched_under' = [fetched_under EXCEPT ![current_ip] = @ + 1]
    /\ request_user_agent' = UserAgentSent(session_headers, kwargs)

\* bug: a 2xx response takes the URL out of the bad responses again
GetPage_ForgetsOnSuccess(status, d) ==
    /\ pc = "fetch"
    /\ SendRequest
    /\ now' = now + d
    /\ status_code' = status
    /\ last_scrape_time' = now'
    /\ ips_used' = _update_ip_dict(ips_used, current_ip, 1)
    /\ IF success(status)
       THEN /\ files' = cache_response(files, cacher, PageOf(url, status),
                                       get_file_name(url))
            /\ bad_response_urls' = bad_response_urls \ {url}
       ELSE /\ bad_response_urls' = bad_response_urls \cup {url}
            /\ UNCHANGED files
    /\ IF status \in 200 .. 299
       THEN /\ stored_urls' = stored_urls \cup {url}
            /\ failed_last' = failed_last \ {url}
       ELSE /\ failed_last' = failed_last \cup {url}
            /\ UNCHANGED stored_urls
    /\ pc' = "done"
    /\ UNCHANGED <<config, current_ip, url, fetch_from_internet,
                   time_since_last_request, wait_time, kwargs, pre, rotated,
                   n_calls, all_fresh, agent, report, retrieved, pool>>

\* lines 246-251 and 203-210: the response arrives after d ticks; the time
\* and the use are recorded; a 2xx response is cached, another one recorded
GetPage(status, d) ==
    /\ pc = "fetch"
    /\ SendRequest
    /\ now' = now + d
    /\ status_code' = status
    /\ last_scrape_time' = now'
    /\ ips_used' = _update_ip_dict(ips_used, current_ip, 1)
    /\ IF success(status)
       THEN /\ files' = cache_response(files, cacher, PageOf(url, status),
                                       get_file_name(url))
            /\ UNCHANGED bad_response_urls
       ELSE /\ bad_response_urls' = bad_response_urls \cup {url}
            /\ UNCHANGED files
    /\ IF status \in 200 .. 299
       THEN /\ stored_urls' = stored_urls \cup {url}
            /\ failed_last' = failed_last \ {url}
       ELSE /\ failed_last' = failed_last \cup {url}
            /\ UNCHANGED stored_urls
    /\ pc' = "done"
    /\ UNCHANGED <<config, current_ip, url, fetch_from_internet,
                   time_since_last_request, wait_time, kwargs, pre, rotated,
                   n_calls, all_fresh, agent, report, retrieved, pool>>

\* bug: the time of the request is recorded although it raised
GetPageFails_SetsTime(d) ==
    /\ pc = "fetch"
    /\ SendRequest
    /\ now' = now + d
    /\ last_scrape_time' = now'
    /\ Raise("ConnectionError")
    /\ failed_last' = failed_last \ {url}
    /\ all_fresh' = FALSE
    /\ UNCHANGED <<config, ips_used, current_ip, bad_response_urls, files,
                   frame, pre, rotated, stored_urls, n_calls, agent, retrieved, pool>>

\* line 246 raises (connection refused, timeout) after d ticks; scrape
\* prints the bad responses and re-raises
GetPageFails(d) ==
    /\ pc = "fetch"
    /\ SendRequest
    /\ now' = now + d
    /\ Raise("ConnectionError")
    /\ failed_last' = failed_last \ {url}
    /\ all_fresh' = FALSE
    /\ UNCHANGED <<config, client, files, frame, pre, rotated, stored_urls,
                   n_calls, agent, retrieved, pool>>

\* the file open(file_path, "w") leaves when the write after it fails
TruncatedFile(c) == IF c = "PickleCacher" THEN [empty |-> TRUE] ELSE <<>>

\* lines 246-251 and 203-205: a 2xx response arrives after d ticks, the time
\* and the use are recorded, and cache_response raises (the directory is gone,
\* the disk is full): open failed, or it left a truncated file; scrape prints
\* the bad responses and re-raises
CacheResponseFails(status, d, truncated) ==
    /\ pc = "fetch"
    /\ success(status)
    /\ SendRequest
    /\ now' = now + d
    /\ status_code' = status
    /\ last_scrape_time' = now'
    /\ ips_used' = _update_ip_dict(ips_used, current_ip, 1)
    /\ files' = IF truncated
                THEN LET path == _get_file_path(cacher, get_file_name(url))
                     IN  [q \in DOMAIN files \cup {path} |->
                             IF q = path THEN TruncatedFile(cacher)
                             ELSE files[q]]
                ELSE files
    /\ Raise("OSError")
    /\ failed_last' = failed_last \ {url}
    /\ all_fresh' = FALSE
    /\ UNCHANGED <<config, current_ip, bad_response_urls, url,
                   fetch_from_internet, time_since_last_request, wait_time,
                   kwargs, pre, rotated, stored_urls, n_calls, agent,
                   retrieved, pool>>

\* scrape has returned or raised: control is back with the caller.  The code
\* reads only differences of times, so the clock's origin is moved to
\* last_scrape_time here.
Return ==
    /\ pc \in {"done", "raised"}
    /\ pc' = "idle"
    /\ url' = <<>>
    /\ fetch_from_internet' = FALSE
    /\ time_since_last_request' = 0
    /\ wait_time' = 0
    /\ status_code' = 0
    /\ kwargs' = <<>>
    /\ error' = "none"
    /\ printed' = <<>>
    /\ rotated' = FALSE
    /\ now' = now - last_scrape_time
    /\ last_scrape_time' = 0
    /\ last_request_time' = last_request_time - last_scrape_time
    /\ pre' = [Snapshot EXCEPT !.last_scrape_time = 0]
    /\ UNCHANGED <<config, ips_used, current_ip, bad_response_urls, files,
                   fetched_under, request_user_agent, past, n_calls, agent,
                   retrieved, pool>>

\* every behaviour of one client used sequentially
Next ==
    \/ Tick
    \/ \E u \in URLs : Scrape(u)
    \/ KeepIp
    \/ \E ip \in IPs : RefreshIp(ip)
    \/ RefreshIpFails
    \/ \E r \in 0 .. RandDenom - 1 : Throttle(r)
    \/ \E s \in StatusCodes, d \in 0 .. MaxFetchDur : GetPage(s, d)
    \/ \E d \in 0 .. MaxFetchDur : GetPageFails(d)
    \/ Return

Spec == Init /\ [][Next]_vars

\* The ledger and the cache never read the clock: for the claims about them
\* the caller calls back to back and a request takes no time.
InitLedger ==
    Init /\ minimum_wait_time = 1 /\ random_wait_time = 0
         /\ ~randomize_headers /\ headers = <<>>

NextLedger ==
    \/ \E u \in URLs : Scrape(u)
    \/ KeepIp
    \/ \E ip \in IPs : RefreshIp(ip)
    \/ RefreshIpFails
    \/ \E r \in 0 .. RandDenom - 1 : Throttle(r)
    \/ \E s \in StatusCodes : GetPage(s, 0)
    \/ GetPageFails(0)
    \/ Return

SpecLedger == InitLedger /\ [][NextLedger]_vars

\* For the claims about errors the cache may fail as well.
InitFaults == InitLedger

NextFaults ==
    \/ NextLedger
    \/ \E s \in StatusCodes, truncated \in BOOLEAN :
          CacheResponseFails(s, 0, truncated)

SpecFaults == InitFaults /\ [][NextFaults]_vars

\* The steps of a running call: Python runs the next line of scrape as soon
\* as the call it waits for (Tor, the site, the file system) has returned.
CallStep ==
    \/ KeepIp
    \/ \E ip \in IPs : RefreshIp(ip)
    \/ RefreshIpFails
    \/ \E r \in 0 .. RandDenom - 1 : Throttle(r)
    \/ \E s \in StatusCodes : GetPage(s, 0)
    \/ GetPageFails(0)
    \/ \E s \in StatusCodes, truncated \in BOOLEAN :
          CacheResponseFails(s, 0, truncated)

\* For the claim about the order of a call's steps: a running call is never
\* left waiting forever.
InitOrder ==
    InitFaults /\ max_n_uses = 1 /\ ~ignore_cache /\ cacher = "PickleCacher"

SpecOrder == InitOrder /\ [][NextFaults]_vars /\ WF_vars(CallStep)

\* For the claims about the User-Agent one URL is scraped again and again,
\* with and without headers of the call's own, the cache ignored.
InitHeaders ==
    Init /\ max_n_uses = 1 /\ minimum_wait_time = 1 /\ random_wait_time = 0
         /\ ignore_cache /\ cacher = "PickleCacher" /\ files = <<>>

NextHeaders ==
    \/ \E kw \in CallOptions : ScrapeWith(UrlC, kw)
    \/ KeepIp
    \/ \E ip \in IPs : RefreshIp(ip)
    \/ RefreshIpFails
    \/ Throttle(0)
    \/ \E s \in StatusCodes : GetPage(s, 0)
    \/ GetPageFails(0)
    \/ Return

SpecHeaders == InitHeaders /\ [][NextHeaders]_vars

\* The clock is read by the throttle alone: for the claims about timing one
\* URL is scraped again and again, with the cache empty at first and ignored.
InitTiming ==
    Init /\ ignore_cache /\ cacher = "PickleCacher" /\ files = <<>>
         /\ ~randomize_headers /\ headers = <<>>

NextTiming ==
    \/ Tick
    \/ Scrape(UrlC)
    \/ KeepIp
    \/ \E ip \in IPs : RefreshIp(ip)
    \/ RefreshIpFails
    \/ \E r \in 0 .. RandDenom - 1 : Throttle(r)
    \/ \E s \in StatusCodes, d \in 0 .. MaxFetchDur : GetPage(s, d)
    \/ \E d \in 0 .. MaxFetchDur : GetPageFails(d)
    \/ Return

SpecTiming == InitTiming /\ [][NextTiming]_vars

\* The cache key is a function of the URL string alone: for the claims about
\* it every string over Alphabet is scraped, from an empty cache, and every
\* page is served with status 200.
Alphabet == {"a", "/", "_"}

UrlStrings == UNION {[1 .. n -> Alphabet] : n \in 1 .. MaxUrlLen}

InitKeys ==
    Init /\ ~ignore_cache /\ files = <<>> /\ max_n_uses = 1
         /\ minimum_wait_time = 1 /\ random_wait_time = 0
         /\ ~randomize_headers /\ headers = <<>>

NextKeys ==
    \/ \E u \in UrlStrings : n_calls < MaxKeyCalls /\ Scrape(u)
    \/ KeepIp
    \/ \E ip \in IPs : RefreshIp(ip)
    \/ Throttle(0)
    \/ GetPage(200, 0)
    \/ Return

SpecKeys == InitKeys /\ [][NextKeys]_vars

\* The cachers used on their own: responses are stored under the names of
\* the URLs and read back.
Texts == {<<"a">>, <<"a", "\n", "b">>, <<"a", "\r", "\n", "b">>}

Responses == {[status_code |-> 200, text |-> t] : t \in Texts}

Names == {get_file_name(u) : u \in URLs}

\* cacher.cache_response(response, name)
CacheResponse(response, name) ==
    /\ files' = cache_response(files, cacher, response, name)
    /\ given' = [n \in DOMAIN given \cup {name} |->
                    IF n = name THEN response ELSE given[n]]
    /\ got' = <<>>
    /\ UNCHANGED <<config, client, now, pc, frame, pre, rotated, sent, past,
                   n_calls, agent, report, pool>>

\* cacher.get_response_from_cache(name), for a name that has a file
GetResponseFromCache(name) ==
    /\ check_response_exists(files, cacher, name)
    /\ got' = <<name, get_response_from_cache(files, cacher, name)>>
    /\ UNCHANGED <<config, client, files, now, pc, frame, pre, rotated, sent,
                   past, n_calls, agent, report, given, pool>>

InitCacher ==
    Init /\ max_n_uses = 1 /\ minimum_wait_time = 1 /\ random_wait_time = 0
         /\ ~ignore_cache /\ ~randomize_headers /\ headers = <<>>

NextCacher ==
    \/ \E response \in Responses, name \in Names : CacheResponse(response, name)
    \/ \E name \in Names : GetResponseFromCache(name)

SpecCacher == InitCacher /\ [][NextCacher]_vars

\* ---------------------------------------------------------------- threads
\* Two threads call scrape, on one Scraper they share or on a Scraper each.
\* The cache is ignored and every request is answered; a thread may be
\* switched out between any two lines of _get_page_from_internet that touch
\* the client or wait.
Threads == {1, 2}

\* the Scraper of thread t, and the thread with one field changed
ScraperOf(t) == scrapers[threads[t].scraper]

Moved(t, to) == [threads EXCEPT ![t].pc = to]

\* thread t calls scrape
TScrape(t) ==
    /\ threads[t].pc = "idle"
    /\ threads[t].calls < MaxThreadCalls
    /\ threads' = [threads EXCEPT ![t].pc = "rotation_check",
                                  ![t].calls = @ + 1]
    /\ UNCHANGED <<config, client, files, now, pc, frame, pre, rotated, sent,
                   past, n_calls, agent, report, retrieved, scrapers>>

\* line 224: the address has uses left
TKeepIp(t) ==
    /\ threads[t].pc = "rotation_check"
    /\ ~RotationDue(n_uses(ScraperOf(t).ips_used, ScraperOf(t).current_ip),
                    max_n_uses)
    /\ threads' = Moved(t, "throttle")
    /\ UNCHANGED <<config, client, files, now, pc, frame, pre, rotated, sent,
                   past, n_calls, agent, report, retrieved, scrapers>>

\* lines 224-229: the rotation, icanhazip reports address ip
TRefreshIp(t, ip) ==
    /\ threads[t].pc = "rotation_check"
    /\ RotationDue(n_uses(ScraperOf(t).ips_used, ScraperOf(t).current_ip),
                   max_n_uses)
    /\ scrapers' = [scrapers EXCEPT
                       ![threads[t].scraper].current_ip = ip,
                       ![threads[t].scraper].ips_used =
                            _update_current_ip(@, ip)]
    /\ threads' = Moved(t, "throttle")
    /\ UNCHANGED <<config, client, files, now, pc, frame, pre, rotated, sent,
                   past, n_calls, agent, report, retrieved>>

\* bug: no wait is computed, the request goes out at once
TThrottle_NoWait(t, r) ==
    /\ threads[t].pc = "throttle"
    /\ threads' = [threads EXCEPT ![t].pc = "sleep", ![t].wake = now]
    /\ UNCHANGED <<config, client, files, now, pc, frame, pre, rotated, sent,
                   past, n_calls, agent, report, retrieved, scrapers>>

\* lines 232-244: the wait is computed from last_scrape_time as it is now,
\* and the thread goes to sleep
TThrottle(t, r) ==
    /\ threads[t].pc = "throttle"
    /\ threads' = [threads EXCEPT
                      ![t].pc = "sleep",
                      ![t].wake = now + WaitTime(minimum_wait_time,
                                       random_wait_time, r,
                                       now - ScraperOf(t).last_scrape_time)]
    /\ UNCHANGED <<config, client, files, now, pc, frame, pre, rotated, sent,
                   past, n_calls, agent, report, retrieved, scrapers>>

\* line 246: the sleep is over and the page request goes out (history: its
\* time, and whether it came less than minimum_wait_time after the request
\* before it on the same Scraper)
TSend(t) ==
    /\ threads[t].pc = "sleep"
    /\ now >= threads[t].wake
    /\ scrapers' = [scrapers EXCEPT
                       ![threads[t].scraper].last_request_time = now,
                       ![threads[t].scraper].close =
                            \/ @
                            \/ /\ ScraperOf(t).last_request_time >= 0
                               /\ now - ScraperOf(t).last_request_time
                                     < minimum_wait_time * RandDenom]
    /\ threads' = Moved(t, "fetch")
    /\ UNCHANGED <<config, client, files, now, pc, frame, pre, rotated, sent,
                   past, n_calls, agent, report, retrieved>>

\* lines 246-248: the response arrives; the time and the use are recorded,
\* under the address that is current now
TReceive(t) ==
    /\ threads[t].pc = "fetch"
    /\ scrapers' = [scrapers EXCEPT
                       ![threads[t].scraper].last_scrape_time = now,
                       ![threads[t].scraper].ips_used =
                            _update_ip_dict(@, ScraperOf(t).current_ip, 1)]
    /\ threads' = Moved(t, "idle")
    /\ UNCHANGED <<config, client, files, now, pc, frame, pre, rotated, sent,
                   past, n_calls, agent, report, retrieved>>

\* time passes while a thread sleeps or waits for its response; a sleep
\* ends on time
TTick ==
    /\ now < MaxThreadTime
    /\ \E t \in Threads : threads[t].pc \in {"sleep", "fetch"}
    /\ \A t \in Threads : threads[t].pc = "sleep" => threads[t].wake > now
    /\ now' = now + 1
    /\ UNCHANGED <<config, client, files, pc, frame, pre, rotated, sent, past,
                   n_calls, agent, report, retrieved, pool>>

\* Scraper() once or once per thread; the threads have not called yet
InitThreads ==
    /\ InitScraper
    /\ max_n_uses = 1 /\ minimum_wait_time = 1 /\ random_wait_time = 0
    /\ ignore_cache /\ cacher = "PickleCacher" /\ files = <<>>
    /\ ~randomize_headers /\ headers = <<>>
    /\ scrapers = [c \in Threads |->
                      [ips_used |-> _update_current_ip(<<>>, current_ip),
                       current_ip |-> current_ip,
                       last_scrape_time |-> now,
                       last_request_time |-> -1,
                       close |-> FALSE]]
    /\ \E share \in BOOLEAN :
          threads = [t \in Threads |->
                        [scraper |-> IF share THEN 1 ELSE t,
                         pc |-> "idle", wake |-> 0, calls |-> 0]]

NextThreads ==
    \/ \E t \in Threads : TScrape(t)
    \/ \E t \in Threads : TKeepIp(t)
    \/ \E t \in Threads, ip \in IPs : TRefreshIp(t, ip)
    \/ \E t \in Threads, r \in 0 .. RandDenom - 1 : TThrottle(t, r)
    \/ \E t \in Threads : TSend(t)
    \/ \E t \in Threads : TReceive(t)
    \/ TTick

SpecThreads == InitThreads /\ [][NextThreads]_vars

\* ------------------------------------------------------------------ claims
\* the client state a cache hit must leave alone
ClientAsBefore ==
    /\ ips_used = pre.ips_used
    /\ current_ip = pre.current_ip
    /\ last_scrape_time = pre.last_scrape_time
    /\ bad_response_urls = pre.bad_response_urls
    /\ files = pre.files

NoRequestSent == fetched_under = pre.fetched_under

\* rotation was due when the running call started
WasDue == pre.ips_used[pre.current_ip] >= max_n_uses

\* C1: with ignore_cache false, a scrape call whose cache key is in the cache
\* sends no page request and leaves the ledger, the current identity, the
\* last-scrape time, the bad-response set and the cache as they were; it
\* rotates nothing, even when the current address has reached max_n_uses.
C1_CacheHitChangesNothing ==
    (pc # "idle" /\ ~ignore_cache /\ KeyCached(pre.files, cacher, url)) =>
        /\ pc = "done"
        /\ NoRequestSent
        /\ ClientAsBefore
        /\ ~rotated

\* a cache hit while the current address has used up its max_n_uses >= 1
C1_Witness ==
    /\ pc = "done" /\ ~ignore_cache /\ KeyCached(pre.files, cacher, url)
    /\ max_n_uses >= 1
    /\ pre.ips_used[pre.current_ip] >= max_n_uses

\* C2: with ignore_cache false, a call that misses the cache and whose fetch
\* is classified (2xx or not) adds exactly one use to the current address,
\* and a call that hits the cache adds none.
C2_OneUsePerMiss ==
    (pc = "done" /\ ~ignore_cache) =>
        IF KeyCached(pre.files, cacher, url)
        THEN ips_used = pre.ips_used
        ELSE /\ DOMAIN ips_used = DOMAIN pre.ips_used \cup {current_ip}
             /\ \A ip \in DOMAIN ips_used :
                   ips_used[ip] =
                      IF ip # current_ip THEN pre.ips_used[ip]
                      ELSE (IF rotated THEN 0 ELSE pre.ips_used[ip]) + 1

\* a miss with a non-2xx response, on an address that had been used before
C2_Witness ==
    /\ pc = "done" /\ ~ignore_cache /\ ~KeyCached(pre.files, cacher, url)
    /\ status_code = 404
    /\ ~rotated
    /\ ips_used[current_ip] = 2

\* C3: when the current address has reached max_n_uses, the next page request
\* of scrape is preceded by a rotation and goes out under the address the
\* rotation set, whose ledger entry is 0 at that moment; the check is made on
\* every cache miss.
C3_RotationBeforeFetch ==
    (pc = "fetch" /\ WasDue) => (rotated /\ ips_used[current_ip] = 0)

\* a later call rotates again, and Tor hands back the address it had
C3_Witness ==
    /\ pc = "fetch" /\ WasDue /\ rotated
    /\ max_n_uses >= 1
    /\ n_calls >= 2
    /\ current_ip = pre.current_ip

\* C4: for max_n_uses >= 1, no address ever has more than max_n_uses page
\* requests sent under it, whatever addresses Tor hands back.
C4_MaxUsesPerIp ==
    max_n_uses >= 1 => \A ip \in IPs : fetched_under[ip] <= max_n_uses

\* C5: any two consecutive page requests of one client are sent at least
\* minimum_wait_time apart, also when the earlier one ended in a transport
\* error.
C5_MinimumWaitBetweenRequests ==
    [][(fetched_under' # fetched_under /\ \E ip \in IPs : fetched_under[ip] > 0)
          => last_request_time' - last_request_time
                >= minimum_wait_time * RandDenom]_vars

\* time from the recorded last_scrape_time to the moment the request goes out
Spacing == now - last_scrape_time

MinSpacing == minimum_wait_time * RandDenom

MaxSpacing == (minimum_wait_time + random_wait_time) * RandDenom

\* C6 as claimed: every page request goes out between minimum_wait_time and
\* minimum_wait_time + random_wait_time after last_scrape_time, however long
\* the caller waited before calling scrape.
C6_SpacingWithinWindow ==
    pc = "fetch" => (MinSpacing <= Spacing /\ Spacing <= MaxSpacing)

\* C6, amended: the sleep is max(minimum_wait_time + r * random_wait_time -
\* elapsed, 0), never negative and 0 when elapsed covers the target, so the
\* request goes out max(target, elapsed) after last_scrape_time: at least
\* minimum_wait_time after it, and within the window only if the caller let
\* no more than minimum_wait_time + random_wait_time pass.
C6_SpacingIsTargetOrElapsed ==
    pc = "fetch" =>
        \E r \in 0 .. RandDenom - 1 :
            LET target == MinSpacing + r * random_wait_time
                elapsed == time_since_last_request
            IN  /\ wait_time = Max(target - elapsed, 0)
                /\ wait_time >= 0
                /\ (elapsed >= target => wait_time = 0)
                /\ Spacing = Max(target, elapsed)
                /\ Spacing >= MinSpacing
                /\ (elapsed <= MaxSpacing => Spacing <= MaxSpacing)

\* the caller let more than the whole window pass: no sleep, and the
\* request goes out later than the window
C6_Witness ==
    /\ pc = "fetch"
    /\ time_since_last_request > MaxSpacing
    /\ wait_time = 0
    /\ Spacing > MaxSpacing

\* C7: a scrape call whose response has a status outside 200-299 returns
\* normally, leaves the URL in bad_response_urls and writes nothing to the
\* cache.
C7_BadStatusRecordedNotCached ==
    (status_code # 0 /\ status_code \notin 200 .. 299) =>
        /\ pc = "done"
        /\ url \in bad_response_urls
        /\ files = pre.files

\* a 300 answer to a URL that was not cached: recorded, and still not cached
C7_Witness ==
    /\ pc = "done" /\ status_code = 300
    /\ url \in bad_response_urls
    /\ ~KeyCached(files, cacher, url)

\* another URL with the same cache key has been fetched and stored
KeyStoredForOther ==
    \E v \in pre.stored_urls : v # url /\ get_file_name(v) = get_file_name(url)

C9_StoredUrlIsCacheHit ==
    (pc # "idle" /\ ~ignore_cache /\ url \in pre.stored_urls) =>
        /\ pc = "done"
        /\ ~fetch_from_internet
        /\ NoRequestSent
        /\ ClientAsBefore

\* the second scrape of a URL this client fetched and stored
C9_Witness ==
    /\ pc = "done" /\ ~ignore_cache /\ url \in pre.stored_urls
    /\ pre.fetched_under # [ip \in IPs |-> 0]

\* C10: with max_n_uses = 1, after N scrape calls on N different uncached
\* URLs whose fetches all completed, the ledger has N entries, each with
\* count 1, and every call after the first rotated, whatever address Tor
\* hands back.
C10_OneLedgerEntryPerCall ==
    (pc = "done" /\ max_n_uses = 1 /\ all_fresh) =>
        /\ Cardinality(DOMAIN ips_used) = n_calls
        /\ \A ip \in DOMAIN ips_used : ips_used[ip] = 1
        /\ (n_calls >= 2 => rotated)

\* the string has no "__" in it
NoDoubleUnderscore(u) ==
    ~\E i \in 1 .. Len(u) - 1 : u[i] = "_" /\ u[i + 1] = "_"

\* no "_" of the string stands next to another "_" or to a "/"
NoUnderscoreNextToSeparator(u) ==
    \A i \in 1 .. Len(u) :
        u[i] = "_" =>
            /\ (i > 1 => u[i - 1] \notin {"_", "/"})
            /\ (i < Len(u) => u[i + 1] \notin {"_", "/"})

\* C11 as claimed: get_file_name is injective on URLs without "__": after
\* URLs without "__" were scraped and stored, scraping another URL without
\* "__" is never a cache hit.
C11_KeysDifferWithoutDoubleUnderscore ==
    (/\ pc # "idle"
     /\ NoDoubleUnderscore(url)
     /\ \A v \in pre.stored_urls : v # url /\ NoDoubleUnderscore(v))
        => fetch_from_internet

\* C11, amended: get_file_name is injective on URLs in which no "_" stands
\* next to another "_" or to a "/" ("_/" and "/_" both give "___"): after
\* such URLs were scraped and stored, scraping another such URL is never a
\* cache hit.
C11_KeysDifferWithoutAdjacentUnderscore ==
    (/\ pc # "idle"
     /\ NoUnderscoreNextToSeparator(url)
     /\ \A v \in pre.stored_urls : v # url /\ NoUnderscoreNextToSeparator(v))
        => /\ fetch_from_internet
           /\ \A v \in pre.stored_urls : get_file_name(v) # get_file_name(url)

\* "_a" is scraped after "/a" was stored: different keys, no cache hit
C11_Witness ==
    /\ pc # "idle"
    /\ url = <<"_", "a">>
    /\ pre.stored_urls = {<<"/", "a">>}
    /\ fetch_from_internet

\* what a cacher keeps of a response: all of it, or its text
Kept(c, response) == IF c = "PickleCacher" THEN response ELSE response.text

\* C12: for both cachers, get_response_from_cache(name) returns what the
\* latest cache_response(response, name) was given (the response, or its text
\* for the TextCacher) unchanged, and check_response_exists(name) is true
\* once a response was stored under the name.
C12_RoundTrip ==
    /\ \A name \in DOMAIN given : check_response_exists(files, cacher, name)
    /\ (got # <<>> /\ got[1] \in DOMAIN given) =>
           got[2] = Kept(cacher, given[got[1]])

\* C13: a scrape call that raises (the renewal, the page request or the cache
\* write failed) has printed the bad-response set as it stands, and raises
\* the error that occurred; a call that returns normally has printed nothing.
C13_ErrorReportedAndReraised ==
    /\ pc = "raised" =>
          /\ printed = <<bad_response_urls>>
          /\ bad_response_urls = pre.bad_response_urls
          /\ error = (IF NoRequestSent THEN "AuthenticationFailure"
                      ELSE IF status_code = 0 THEN "ConnectionError"
                      ELSE "OSError")
    /\ pc # "raised" => (error = "none" /\ printed = <<>>)

\* the cache write fails after bad responses were recorded: they are printed
C13_Witness ==
    /\ pc = "raised"
    /\ error = "OSError"
    /\ printed = <<{UrlC}>>

\* the count of the address the page request went out under, before it
CountBeforeFetch == IF rotated THEN 0 ELSE pre.ips_used[pre.current_ip]

\* C16: when the page request returns a response, whatever its status,
\* last_scrape_time is set to the time of its return and the count of the
\* current address goes up by exactly 1, also when the cache write that
\* follows fails; when the page request raises, the error leaves scrape and
\* the count, last_scrape_time, the bad-response set and the cache are as
\* they were before the request.
C16_FetchBookkeeping ==
    /\ status_code # 0 =>
          /\ last_scrape_time = now
          /\ ips_used[current_ip] = CountBeforeFetch + 1
          /\ \A ip \in DOMAIN ips_used \ {current_ip} :
                ip \in DOMAIN pre.ips_used /\ ips_used[ip] = pre.ips_used[ip]
    /\ (pc # "idle" /\ ~NoRequestSent /\ status_code = 0) =>
          /\ pc = "raised"
          /\ error = "ConnectionError"
          /\ ips_used[current_ip] = CountBeforeFetch
          /\ last_scrape_time = pre.last_scrape_time
          /\ bad_response_urls = pre.bad_response_urls
          /\ files = pre.files

\* a 404 is answered under an address used once before: its count is 2
C16_Witness ==
    /\ pc = "done"
    /\ status_code = 404
    /\ ~rotated
    /\ ips_used[current_ip] = 2
    /\ last_scrape_time > pre.last_scrape_time

\* C17: when the rotation is due and the renewal fails (authenticate raises),
\* scrape raises that error and sends no page request; the current address,
\* the ledger, last_scrape_time, the bad-response set and the cache stay as
\* they were, so the rotation is still due, and no call for which it is due
\* gets as far as the throttle or the page request without rotating.
C17_RenewalFailureAborts ==
    /\ (pc = "raised" /\ error = "AuthenticationFailure") =>
          /\ WasDue
          /\ NoRequestSent
          /\ ClientAsBefore
          /\ ~rotated
          /\ RotationDue(n_uses(ips_used, current_ip), max_n_uses)
    /\ (pc \in {"throttle", "fetch"} /\ WasDue) => rotated

\* the renewal fails for an address that has been used
C17_Witness ==
    /\ pc = "raised"
    /\ error = "AuthenticationFailure"
    /\ max_n_uses >= 1
    /\ ips_used[current_ip] >= max_n_uses

\* the cache file of the URL of the running call
UrlPath == _get_file_path(cacher, get_file_name(url))

\* C14: with ignore_cache true, every scrape call takes the fetch path even
\* when its key is cached, a call that returns has sent a page request, and a
\* 2xx response is stored over whatever the key held, other files untouched.
C14_IgnoreCacheFetchesAndStores ==
    (ignore_cache /\ pc # "idle") =>
        /\ fetch_from_internet
        /\ pc = "done" => ~NoRequestSent
        /\ (pc = "done" /\ status_code \in 200 .. 299) =>
              /\ UrlPath \in DOMAIN files
              /\ files[UrlPath] = FileContent(cacher, PageOf(url, status_code))
              /\ \A q \in DOMAIN pre.files \ {UrlPath} :
                    q \in DOMAIN files /\ files[q] = pre.files[q]

\* a cached key is fetched again and its file is replaced
C14_Witness ==
    /\ ignore_cache
    /\ pc = "done"
    /\ status_code = 200
    /\ KeyCached(pre.files, cacher, url)
    /\ files[UrlPath] # pre.files[UrlPath]

\* C15: the current address always has a ledger entry; a count goes up only
\* for the current address; a rotation leaves the new address with a count
\* of 0; and no entry is ever removed or lowered, whatever address the
\* rotation hands out, one used before included.
C15_LedgerOnlyGrows ==
    [][/\ current_ip' \in DOMAIN ips_used'
       /\ \A ip \in DOMAIN ips_used :
             /\ ip \in DOMAIN ips_used'
             /\ ips_used'[ip] >= ips_used[ip]
             /\ ips_used'[ip] > ips_used[ip] => ip = current_ip
       /\ (rotated' /\ ~rotated) => ips_used'[current_ip'] = 0]_vars

\* the steps a scrape call may take, in the order of the code
CallOrder ==
    {<<"idle", "done">>, <<"idle", "rotation_check">>,
     <<"rotation_check", "throttle">>, <<"rotation_check", "raised">>,
     <<"throttle", "fetch">>, <<"fetch", "done">>, <<"fetch", "raised">>,
     <<"done", "idle">>, <<"raised", "idle">>}

PagesRequested == fetched_under["10.0.0.1"] + fetched_under["10.0.0.2"]

\* C18: a scrape call goes from the cache check either straight to its end
\* (cache hit) or through the rotation check, the throttle and the page
\* request, in this order; the identity changes only at the rotation check,
\* the wait is slept only at the throttle, which every call passes before its
\* page request, rotated or not; the one page request of a call is sent after
\* the throttle and ends the call: a 2xx response is stored, another one is
\* recorded as bad; and every call that has started returns or raises.
C18_CallOrder ==
    /\ [][/\ pc' # pc => <<pc, pc'>> \in CallOrder
          /\ (pc = "idle" /\ pc' = "done") <=> (pc = "idle" /\ pc' # pc /\ ~fetch_from_internet')
          /\ (current_ip' # current_ip \/ (rotated' /\ ~rotated)) =>
                (pc = "rotation_check" /\ pc' = "throttle")
          /\ now' # now =>
                \/ pc = "throttle" /\ now' = now + wait_time'
                \/ pc' = "idle"
          /\ fetched_under' # fetched_under =>
                /\ pc = "fetch" /\ pc' \in {"done", "raised"}
                /\ PagesRequested' = PagesRequested + 1
          /\ (pc = "fetch" /\ pc' = "done") =>
                /\ fetched_under' # fetched_under
                /\ IF status_code' \in 200 .. 299
                   THEN /\ KeyCached(files', cacher, url)
                        /\ bad_response_urls' = bad_response_urls
                   ELSE /\ bad_response_urls' = bad_response_urls \cup {url}
                        /\ files' = files]_vars
    /\ (pc \in {"rotation_check", "throttle", "fetch"})
          ~> (pc \in {"done", "raised"})

\* a call has rotated, slept the wait and got its page
C18_Witness ==
    /\ pc = "done"
    /\ rotated
    /\ wait_time > 0
    /\ status_code = 200
    /\ PagesRequested = pre.fetched_under["10.0.0.1"]
                            + pre.fetched_under["10.0.0.2"] + 1

\* the running call passes a User-Agent header of its own
CallNamesUserAgent ==
    /\ "headers" \in DOMAIN kwargs
    /\ "User-Agent" \in DOMAIN kwargs["headers"]

\* a rotation has chosen a User-Agent, now the User-Agent of the session
RotationChoiceKept ==
    chosen_user_agent # "none" =>
        /\ randomize_headers
        /\ chosen_user_agent \in USER_AGENTS
        /\ "User-Agent" \in DOMAIN session_headers
        /\ session_headers["User-Agent"] = chosen_user_agent
        /\ \A n \in DOMAIN headers \ {"User-Agent"} :
              n \in DOMAIN session_headers /\ session_headers[n] = headers[n]

\* C19 as claimed: with randomize_user_agent, each rotation sets a User-Agent
\* from USER_AGENTS and every page request sent until the next rotation
\* carries it; without randomize_user_agent the session headers stay as
\* given to the constructor.
C19_UserAgentOfRotationSent ==
    /\ RotationChoiceKept
    /\ (chosen_user_agent # "none" /\ ~NoRequestSent) =>
          request_user_agent = chosen_user_agent
    /\ ~randomize_headers =>
          (session_headers = headers /\ chosen_user_agent = "none")

\* C19, amended: with randomize_user_agent, each rotation sets a User-Agent
\* from USER_AGENTS and every page request sent until the next rotation
\* carries it, unless the call passes a User-Agent header of its own, which
\* is sent instead; without randomize_user_agent the session headers stay as
\* given to the constructor.
C19_UserAgentOfRotationSentUnlessCallsOwn ==
    /\ RotationChoiceKept
    /\ (chosen_user_agent # "none" /\ ~NoRequestSent) =>
          request_user_agent = (IF CallNamesUserAgent
                                THEN kwargs["headers"]["User-Agent"]
                                ELSE chosen_user_agent)
    /\ ~randomize_headers =>
          (session_headers = headers /\ chosen_user_agent = "none")

\* a call that does not rotate sends the User-Agent an earlier rotation chose,
\* not the one given to the constructor
C19_Witness ==
    /\ randomize_headers
    /\ headers = ("User-Agent" :> "my-agent")
    /\ pc = "done"
    /\ ~rotated
    /\ ~CallNamesUserAgent
    /\ request_user_agent = chosen_user_agent
    /\ chosen_user_agent \in USER_AGENTS

\* the threads call scrape on one Scraper
OneScraperShared == threads[1].scraper = threads[2].scraper

\* the count of the current address of Scraper c is above max_n_uses
CountExceeded(c) ==
    scrapers[c].ips_used[scrapers[c].current_ip] > max_n_uses

C21_CurrentIpHasEntry ==
    /\ current_ip \in DOMAIN ips_used
    /\ n_uses_ledger(ips_used, current_ip) = ips_used

\* a rotation to a second address, then a rotation that fails
C21_Witness ==
    /\ pc = "raised"
    /\ error = "AuthenticationFailure"
    /\ DOMAIN ips_used = IPs
    /\ current_ip \in DOMAIN ips_used

\* the highest count a sequentially used client records
CountBound == Max(max_n_uses, 1)

\* C22: the count of the current address is between 0 and
\* max(max_n_uses, 1), and the count of every other address in the ledger is
\* at most max(max_n_uses, 1).
C22_CountsBounded ==
    \A ip \in DOMAIN ips_used : ips_used[ip] >= 0 /\ ips_used[ip] <= CountBound

\* with max_n_uses = 0 the current and a retired address both stand at 1
C22_Witness ==
    /\ max_n_uses = 0
    /\ pc = "done"
    /\ DOMAIN ips_used = IPs
    /\ \A ip \in IPs : ips_used[ip] = 1

\* C23: bad_response_urls starts empty and changes in one way only: the URL
\* of a call is added when its page request returns a non-2xx status, so a
\* URL is in the set iff a scrape of it got such a status, and a later 2xx
\* response does not take it out; and every decision of a call (cache hit or
\* fetch, rotate or keep, how long to wait, store or not) is the code's
\* function of the configuration, the cache, the ledger and the clock, the
\* same whatever bad_response_urls holds.
C23_BadSetOnlyRecords ==
    [][/\ bad_response_urls' =
             IF pc = "fetch" /\ pc' = "done" /\ status_code' \notin 200 .. 299
             THEN bad_response_urls \cup {url}
             ELSE bad_response_urls
       /\ (pc = "idle" /\ pc' # "idle") =>
             /\ fetch_from_internet' = (ignore_cache \/ ~KeyCached(files, cacher, url'))
             /\ pc' = IF fetch_from_internet' THEN "rotation_check" ELSE "done"
       /\ (pc = "rotation_check" /\ pc' = "throttle") =>
             rotated' = (n_uses(ips_used, current_ip) >= max_n_uses)
       /\ (pc = "rotation_check" /\ pc' = "raised") =>
             n_uses(ips_used, current_ip) >= max_n_uses
       /\ (pc = "throttle" /\ pc' # pc) =>
             \E r \in 0 .. RandDenom - 1 :
                 wait_time' = Max(minimum_wait_time * RandDenom
                                    + r * random_wait_time
                                    - (now - last_scrape_time), 0)
       /\ (pc = "fetch" /\ pc' = "done") =>
             files' = IF status_code' \in 200 .. 299
                      THEN cache_response(files, cacher,
                                          PageOf(url, status_code'),
                                          get_file_name(url))
                      ELSE files]_vars

\* a URL recorded as bad is scraped again with success and stays recorded
C23_Witness ==
    /\ pc = "done"
    /\ status_code = 200
    /\ url = UrlC
    /\ UrlC \in pre.bad_response_urls
    /\ UrlC \in bad_response_urls
    /\ UrlC \in stored_urls

====
